---------------------------- MODULE Spec2Model ----------------------------
(***************************************************************************)
(* The hex-grid puzzle game of src/src/Homepage.tsx: the cube-coordinate   *)
(* geometry (Hex), the grid of cells (HexGrid, Cell), the uniform-cost     *)
(* pathfinder (Game.pathBetween over the TinyQueue binary heap), the turn  *)
(* engine (Game) and the mouse / button handlers of GameView that drive    *)
(* it.  A Hex is the tuple <<q, r, s>>; a Cell is its index in Game.cells. *)
(***************************************************************************)
EXTENDS Integers, Sequences, FiniteSets, TLC

(***************************************************************************)
(* Hex: cube coordinates                                                   *)
(***************************************************************************)

directions ==
    << <<1, -1, 0>>, <<1, 0, -1>>, <<0, 1, -1>>,
       <<-1, 1, 0>>, <<-1, 0, 1>>, <<0, -1, 1>> >>

zero == <<0, 0, 0>>

Abs(x) == IF x < 0 THEN -x ELSE x

add(a, b) == <<a[1] + b[1], a[2] + b[2], a[3] + b[3]>>

scale(a, amount) == <<a[1] * amount, a[2] * amount, a[3] * amount>>

\* Hex.neighbor(index); the source's index is 0-based.
neighbor(a, index) == add(a, directions[index + 1])

\* get neighbors(): the six adjacent coordinates in direction order.
HexNeighbors(a) == [i \in 1..6 |-> add(a, directions[i])]

\* The ring walk: side i (0..5), j steps along direction i from the corner.
RECURSIVE ringWalk(_, _, _, _, _)
ringWalk(hex, radius, i, j, results) ==
    IF i = 6 THEN results
    ELSE IF j = radius THEN ringWalk(hex, radius, i + 1, 0, results)
    ELSE ringWalk(neighbor(hex, i), radius, i, j + 1, Append(results, hex))

\* ring that leaves center out of the hex its walk starts from.
ringAtOrigin(center, radius) ==
    IF radius = 0 THEN <<center>>
    ELSE ringWalk(scale(directions[5], radius), radius, 0, 0, <<>>)

ring(center, radius) ==
    IF radius = 0 THEN <<center>>
    ELSE ringWalk(add(center, scale(directions[5], radius)), radius, 0, 0, <<>>)

\* rings with i <= endRadius for its loop test.
RECURSIVE ringsInclusive(_, _, _)
ringsInclusive(center, startRadius, endRadius) ==
    IF startRadius > endRadius THEN <<>>
    ELSE ring(center, startRadius) \o ringsInclusive(center, startRadius + 1, endRadius)

RECURSIVE rings(_, _, _)
rings(center, startRadius, endRadius) ==
    IF startRadius >= endRadius THEN <<>>
    ELSE ring(center, startRadius) \o rings(center, startRadius + 1, endRadius)

distance(a, b) ==
    (Abs(a[1] - b[1]) + Abs(a[2] - b[2]) + Abs(a[3] - b[3])) \div 2

(***************************************************************************)
(* IEEE-754 binary64 arithmetic, as far as lineBetween uses it.  A finite  *)
(* double of magnitude below 2^14 that is a multiple of 2^-58 is held as   *)
(* [neg, mag]: mag the magnitude in units of 2^-58, a natural number       *)
(* written in three limbs of 24 bits, least significant first.  Every      *)
(* value lineBetween computes between two hexes of the board is of that    *)
(* form.                                                                   *)
(***************************************************************************)

Base == 16777216

Pow2(k) == 2 ^ k

\* Carry (or borrow) propagation over limb sums.
Big(x0, x1, x2) ==
    LET y1 == x1 + (x0 \div Base)
    IN  <<x0 % Base, y1 % Base, x2 + (y1 \div Base)>>

BigZero == <<0, 0, 0>>

\* 1.0 and 0.5 in units of 2^-58.
BigOne == <<0, 0, 1024>>

BigHalf == <<0, 0, 512>>

BigOfInt(k) == <<0, 0, 1024 * k>>

BigAdd(X, Y) == Big(X[1] + Y[1], X[2] + Y[2], X[3] + Y[3])

\* X - Y for X >= Y.
BigSub(X, Y) == Big(X[1] - Y[1], X[2] - Y[2], X[3] - Y[3])

BigMulSmall(X, k) == Big(X[1] * k, X[2] * k, X[3] * k)

BigLess(X, Y) ==
    \/ X[3] < Y[3]
    \/ X[3] = Y[3] /\ X[2] < Y[2]
    \/ X[3] = Y[3] /\ X[2] = Y[2] /\ X[1] < Y[1]

\* Number of significant bits of a limb, and of a three-limb number.
LimbBits(l) == IF l = 0 THEN 0 ELSE CHOOSE k \in 1..31 : Pow2(k - 1) <= l /\ l \div 2 < Pow2(k - 1)

BitLen(X) ==
    IF X[3] # 0 THEN 48 + LimbBits(X[3])
    ELSE IF X[2] # 0 THEN 24 + LimbBits(X[2])
    ELSE LimbBits(X[1])

\* X with its k lowest bits rounded away: to nearest, ties to even.  sticky
\* says that the exact value lies strictly above X (by less than one unit).
roundAt(X, sticky, k) ==
    IF k <= 0 THEN X
    ELSE LET rem  == X[1] % Pow2(k)
             half == Pow2(k - 1)
             odd  == (X[1] \div Pow2(k)) % 2 = 1
             down == <<X[1] - rem, X[2], X[3]>>
             up   == rem > half \/ (rem = half /\ (sticky \/ odd))
         IN  IF up THEN BigAdd(down, <<Pow2(k), 0, 0>>) ELSE down

\* Rounding to the 53 significant bits of a double.
RoundBig(X, sticky) == roundAt(X, sticky, BitLen(X) - 53)

\* The double nearest to 1/n (n >= 1): 2^58 / n by long division, rounded.
BigInv(n) ==
    LET q2 == BigOne[3] \div n
        r2 == BigOne[3] % n
        q1 == (r2 * Base) \div n
        r1 == (r2 * Base) % n
        q0 == (r1 * Base) \div n
        r0 == (r1 * Base) % n
    IN  RoundBig(<<q0, q1, q2>>, r0 # 0)

FNeg(x) == [neg |-> ~x.neg, mag |-> x.mag]

FOfInt(k) == [neg |-> k < 0, mag |-> BigOfInt(Abs(k))]

\* double * integer, rounded.
FMulInt(x, k) ==
    [neg |-> (x.neg /\ k > 0) \/ (~x.neg /\ k < 0),
     mag |-> RoundBig(BigMulSmall(x.mag, Abs(k)), FALSE)]

\* double + double, rounded.
FAdd(x, y) ==
    IF x.neg = y.neg THEN [neg |-> x.neg, mag |-> RoundBig(BigAdd(x.mag, y.mag), FALSE)]
    ELSE IF BigLess(x.mag, y.mag)
         THEN [neg |-> y.neg, mag |-> RoundBig(BigSub(y.mag, x.mag), FALSE)]
         ELSE [neg |-> x.neg, mag |-> RoundBig(BigSub(x.mag, y.mag), FALSE)]

\* Math.abs(k - x) for an integer k.
FAbsDiff(k, x) == FAdd(FOfInt(k), FNeg(x)).mag

\* Math.round: the nearest integer, a tie going towards +Infinity.
MathRound(x) ==
    IF ~x.neg THEN BigAdd(x.mag, BigHalf)[3] \div 1024
    ELSE IF ~BigLess(BigHalf, x.mag) THEN 0
    ELSE -(BigAdd(BigSub(x.mag, BigHalf), <<Base - 1, Base - 1, 1023>>)[3] \div 1024)

(***************************************************************************)
(* Hex.lineBetween                                                         *)
(***************************************************************************)

\* lerp(a, b, t) = a + (b - a) * t
lerp(a, b, t) == FAdd(FOfInt(a), FMulInt(t, b - a))

\* cubeLerp that keeps the three roundings as they are.
cubeFixNone(rx, ry, rz, x_diff, y_diff, z_diff) == <<rx, ry, rz>>

\* cubeLerp with >= for its comparisons: among equal errors q goes first,
\* then r.
cubeFixQFirst(rx, ry, rz, x_diff, y_diff, z_diff) ==
    IF ~BigLess(x_diff, y_diff) /\ ~BigLess(x_diff, z_diff) THEN <<-ry - rz, ry, rz>>
    ELSE IF ~BigLess(y_diff, z_diff) THEN <<rx, -rx - rz, rz>>
    ELSE <<rx, ry, -rx - ry>>

\* The if / else if / else of cubeLerp that resets one coordinate.
cubeFix(rx, ry, rz, x_diff, y_diff, z_diff) ==
    IF BigLess(y_diff, x_diff) /\ BigLess(z_diff, x_diff) THEN <<-ry - rz, ry, rz>>
    ELSE IF BigLess(z_diff, y_diff) THEN <<rx, -rx - rz, rz>>
    ELSE <<rx, ry, -rx - ry>>

cubeDiffs(x, y, z, rx, ry, rz) ==
    cubeFix(rx, ry, rz, FAbsDiff(rx, x), FAbsDiff(ry, y), FAbsDiff(rz, z))

cubeRound(x, y, z) == cubeDiffs(x, y, z, MathRound(x), MathRound(y), MathRound(z))

cubeLerp(a, b, t) ==
    cubeRound(lerp(a[1], b[1], t), lerp(a[2], b[2], t), lerp(a[3], b[3], t))

\* lineBetween without the push of b after the loop.
lineBetweenOpen(a, b) ==
    LET dist == distance(a, b)
        inv  == [neg |-> FALSE, mag |-> BigInv(dist)]
    IN  [i \in 1..dist |-> cubeLerp(a, b, FMulInt(inv, i - 1))]

\* The loop of lineBetween: sample i is cubeLerp(a, b, 1/distance * i).
lineBetween(a, b) ==
    LET dist == distance(a, b)
        inv  == [neg |-> FALSE, mag |-> BigInv(dist)]
    IN  [i \in 1..(dist + 1) |->
            IF i = dist + 1 THEN b ELSE cubeLerp(a, b, FMulInt(inv, i - 1))]

(***************************************************************************)
(* PriorityQueue: the TinyQueue binary min-heap on priority.  data[pos+1]  *)
(* is the source's data[pos]; an entry is [value, priority].               *)
(***************************************************************************)

\* compare with its operands swapped.
compareReversed(a, b) == b.priority - a.priority

\* compare(a, b) = a.priority - b.priority
compare(a, b) == a.priority - b.priority

\* Sift item up from the 0-based position pos.
RECURSIVE heapUp(_, _, _)
heapUp(data, pos, item) ==
    IF pos > 0 /\ compare(item, data[((pos - 1) \div 2) + 1]) < 0
    THEN heapUp([data EXCEPT ![pos + 1] = data[((pos - 1) \div 2) + 1]],
                (pos - 1) \div 2, item)
    ELSE [data EXCEPT ![pos + 1] = item]

\* _down that leaves the item where it was put.
heapDownNone(data, pos, item, len) == [data EXCEPT ![pos + 1] = item]

\* Sift item down from the 0-based position pos in a heap of length len.
RECURSIVE heapDown(_, _, _, _)
heapDown(data, pos, item, len) ==
    IF pos < len \div 2
    THEN LET left  == 2 * pos + 1
             right == left + 1
             best  == IF right < len /\ compare(data[right + 1], data[left + 1]) < 0
                      THEN right ELSE left
         IN  IF compare(data[best + 1], item) >= 0
             THEN [data EXCEPT ![pos + 1] = item]
             ELSE heapDown([data EXCEPT ![pos + 1] = data[best + 1]], best, item, len)
    ELSE [data EXCEPT ![pos + 1] = item]

push(data, value, priority) ==
    LET item == [value |-> value, priority |-> priority]
    IN  heapUp(Append(data, item), Len(data), item)

\* The heap after pop(); the value popped is data[1].value.
popRest(data) ==
    LET len == Len(data) - 1
    IN  IF len > 0
        THEN heapDown(SubSeq(data, 1, len), 0, data[len + 1], len)
        ELSE <<>>

(***************************************************************************)
(* HexGrid and Cell.  setupBoard fills the grid with one Cell per hex of   *)
(* ringHexes, so a Cell is identified with its position in Game.cells      *)
(* (ringHexes in order).  noCell is the undefined that HexGrid.get gives   *)
(* for a hex without a cell.  The colour of a cell is its only field that  *)
(* changes; a board's colours are a sequence indexed by cell.              *)
(***************************************************************************)

BLANK == "#343434"

BARRIER == "cyan"

MOUNTAIN == "orange"

ringSize == 8

ringHexes == rings(zero, 0, ringSize)

NumCells == Len(ringHexes)

Cells == 1..NumCells

noCell == 0

\* cell.hex
hexOf == ringHexes

\* The keys of hexGrid.cells with the cell each maps to.
gridCells == [hex \in {ringHexes[c] : c \in Cells} |-> CHOOSE c \in Cells : ringHexes[c] = hex]

\* HexGrid.get
get(hex) == IF hex \in DOMAIN gridCells THEN gridCells[hex] ELSE noCell

\* Cell.neighbors: the adjacent hexes that have a cell, in direction order.
neighborCells ==
    [c \in Cells |->
        SelectSeq([i \in 1..6 |-> get(HexNeighbors(hexOf[c])[i])],
                  LAMBDA cell : cell # noCell)]

CellNeighbors(cell) == neighborCells[cell]

\* isPathable that takes only the colour of a barrier for an obstacle.
isPathableButBarrier(color, cell) == color[cell] # BARRIER

isPathable(color, cell) == color[cell] = BLANK

\* Cell.isEmpty, on a board with the given colours, player and enemies.
isEmpty(color, playerCell, enemies, cell) ==
    /\ isPathable(color, cell)
    /\ cell # playerCell
    /\ \A i \in 1..Len(enemies) : enemies[i] # cell

\* Cell.circle(radius)
circle(cell, radius) ==
    LET hexes == rings(hexOf[cell], 0, radius)
    IN  SelectSeq([i \in 1..Len(hexes) |-> get(hexes[i])], LAMBDA c : c # noCell)

\* A lineTo that leaves out the cells that are not pathable and goes on.
RECURSIVE lineCellsSkip(_, _, _, _)
lineCellsSkip(color, line, i, cells) ==
    IF i > Len(line) THEN cells
    ELSE LET cell == get(line[i])
         IN  IF cell # noCell /\ isPathable(color, cell)
             THEN lineCellsSkip(color, line, i + 1, Append(cells, cell))
             ELSE lineCellsSkip(color, line, i + 1, cells)

\* Cell.lineTo: the cells of the line up to the first hex that has no cell
\* or whose cell is not pathable.
RECURSIVE lineCells(_, _, _, _)
lineCells(color, line, i, cells) ==
    IF i > Len(line) THEN cells
    ELSE LET cell == get(line[i])
         IN  IF cell # noCell /\ isPathable(color, cell)
             THEN lineCells(color, line, i + 1, Append(cells, cell))
             ELSE cells

lineTo(color, a, b) == lineCells(color, lineBetween(hexOf[a], hexOf[b]), 1, <<>>)

(***************************************************************************)
(* Game.pathBetween                                                        *)
(***************************************************************************)

\* The Maps of the search are total here: a cell without an entry holds
\* absent; undefined is the entry cameFrom keeps for start.
absent == -1

undefined == 0

\* relax without the test of isPathable.
RECURSIVE relaxAnywhere(_, _, _, _, _, _, _)
relaxAnywhere(color, start, goal, current, nbrs, i, st) ==
    IF i > Len(nbrs) THEN st
    ELSE LET nextCell == nbrs[i]
             newCost  == st.costSoFar[current] + 1
         IN  IF st.costSoFar[nextCell] = absent \/ newCost < st.costSoFar[nextCell]
             THEN relaxAnywhere(color, start, goal, current, nbrs, i + 1,
                        [frontier  |-> push(st.frontier, nextCell, newCost),
                         cameFrom  |-> [st.cameFrom EXCEPT ![nextCell] = current],
                         costSoFar |-> [st.costSoFar EXCEPT ![nextCell] = newCost],
                         done      |-> st.done])
             ELSE relaxAnywhere(color, start, goal, current, nbrs, i + 1, st)

\* relax with newCost <= prevCost for its test.
RECURSIVE relaxAgain(_, _, _, _, _, _, _)
relaxAgain(color, start, goal, current, nbrs, i, st) ==
    IF i > Len(nbrs) THEN st
    ELSE LET nextCell == nbrs[i]
             newCost  == st.costSoFar[current] + 1
         IN  IF nextCell # start /\ nextCell # goal /\ ~isPathable(color, nextCell)
             THEN relaxAgain(color, start, goal, current, nbrs, i + 1, st)
             ELSE IF st.costSoFar[nextCell] = absent \/ newCost <= st.costSoFar[nextCell]
             THEN relaxAgain(color, start, goal, current, nbrs, i + 1,
                        [frontier  |-> push(st.frontier, nextCell, newCost),
                         cameFrom  |-> [st.cameFrom EXCEPT ![nextCell] = current],
                         costSoFar |-> [st.costSoFar EXCEPT ![nextCell] = newCost],
                         done      |-> st.done])
             ELSE relaxAgain(color, start, goal, current, nbrs, i + 1, st)

\* The body of neighbors.forEach for the neighbours from index i on.
RECURSIVE relax(_, _, _, _, _, _, _)
relax(color, start, goal, current, nbrs, i, st) ==
    IF i > Len(nbrs) THEN st
    ELSE LET nextCell == nbrs[i]
             newCost  == st.costSoFar[current] + 1
         IN  IF nextCell # start /\ nextCell # goal /\ ~isPathable(color, nextCell)
             THEN relax(color, start, goal, current, nbrs, i + 1, st)
             ELSE IF st.costSoFar[nextCell] = absent \/ newCost < st.costSoFar[nextCell]
             THEN relax(color, start, goal, current, nbrs, i + 1,
                        [frontier  |-> push(st.frontier, nextCell, newCost),
                         cameFrom  |-> [st.cameFrom EXCEPT ![nextCell] = current],
                         costSoFar |-> [st.costSoFar EXCEPT ![nextCell] = newCost],
                         done      |-> st.done])
             ELSE relax(color, start, goal, current, nbrs, i + 1, st)

\* After the pop of current: stop at the goal (done is the break), else
\* expand current.
expand(color, start, goal, current, rest) ==
    IF current = goal THEN [rest EXCEPT !.done = TRUE]
    ELSE relax(color, start, goal, current, CellNeighbors(current), 1, rest)

\* One turn of the while loop; a search that has ended is left as it is.
searchStep(color, start, goal, st) ==
    IF Len(st.frontier) = 0 \/ st.done THEN st
    ELSE expand(color, start, goal, st.frontier[1].value,
                [st EXCEPT !.frontier = popRest(st.frontier)])

\* Whether the while loop has ended: the break, or an empty frontier.
ended(st) == st.done \/ Len(st.frontier) = 0

\* Up to n turns of the while loop: n \div 2 of them, then the rest.
RECURSIVE iterate(_, _, _, _, _)
RECURSIVE iterateOn(_, _, _, _, _)
iterate(color, start, goal, st, n) ==
    IF n = 1 THEN searchStep(color, start, goal, st)
    ELSE iterateOn(color, start, goal,
                   iterate(color, start, goal, st, n \div 2), n - (n \div 2))

iterateOn(color, start, goal, st, n) ==
    IF ended(st) THEN st ELSE iterate(color, start, goal, st, n)

\* The while loop over the frontier, run until it ends.
RECURSIVE search(_, _, _, _)
search(color, start, goal, st) ==
    IF ended(st) THEN st
    ELSE search(color, start, goal, iterate(color, start, goal, st, 64))

\* The walk back from goal along cameFrom, already in forward order.
RECURSIVE walkBack(_, _, _, _)
walkBack(cameFrom, start, current, path) ==
    IF current = start THEN path
    ELSE walkBack(cameFrom, start, cameFrom[current], <<current>> \o path)

\* What pathBetween returns after the search: [found |-> FALSE] is the
\* source's undefined; otherwise path holds the cells after start up to
\* goal (it is empty when start = goal).
pathFrom(cameFrom, start, goal) ==
    IF cameFrom[goal] = absent
    THEN [found |-> FALSE, path |-> <<>>]
    ELSE [found |-> TRUE, path |-> walkBack(cameFrom, start, goal, <<>>)]

pathBetween(color, start, goal) ==
    pathFrom(search(color, start, goal,
                    [frontier  |-> push(<<>>, start, 0),
                     cameFrom  |-> [c \in Cells |-> IF c = start THEN undefined ELSE absent],
                     costSoFar |-> [c \in Cells |-> IF c = start THEN 0 ELSE absent],
                     done      |-> FALSE]).cameFrom,
             start, goal)

(***************************************************************************)
(* Game.  A game value g is the record of the fields the turn engine       *)
(* reads and writes: color (the cells' colours), playerCell, exitCell,     *)
(* enemies (the cell of each enemy, in list order), numTeleports, level,   *)
(* state; threw records that the handler ended in an uncaught TypeError    *)
(* (a property read of undefined); turns counts the calls of endTurn and   *)
(* barriers those of placeBarrier.                                         *)
(***************************************************************************)

playerStart == get(<<-3, 6, -3>>)

exitHex == <<3, -6, 3>>

\* get numEnemies()
\* numEnemies stuck at one.
numEnemiesOne(level) == 1

numEnemies(level) == level

\* setupBoard painting the ring of radius 2 instead of the rings below 2.
setupColorRing ==
    LET barrierHexes == ring(zero, 2)
        barrierCells == {get(barrierHexes[i]) : i \in 1..Len(barrierHexes)}
    IN  [c \in Cells |-> IF c \in barrierCells THEN MOUNTAIN ELSE BLANK]

\* The colours after setupBoard: every cell BLANK, then barrierHexes orange.
setupColor ==
    LET barrierHexes == rings(zero, 0, 2)
        barrierCells == {get(barrierHexes[i]) : i \in 1..Len(barrierHexes)}
    IN  [c \in Cells |-> IF c \in barrierCells THEN MOUNTAIN ELSE BLANK]

\* spawnableCells before the shuffle, in the order of Game.cells.
spawnableCells(color, playerCell, exitCell) ==
    LET playerNeighbors == CellNeighbors(playerCell)
    IN  SelectSeq([c \in Cells |-> c],
                  LAMBDA cell : /\ isEmpty(color, playerCell, <<>>, cell)
                                /\ cell # exitCell
                                /\ \A k \in 1..Len(playerNeighbors) : playerNeighbors[k] # cell)

Range(seq) == {seq[i] : i \in 1..Len(seq)}

Min(a, b) == IF a < b THEN a ELSE b

\* spawnLists sampling with replacement.
spawnListsAgain(spawnable, draw, n) ==
    LET pool == Range(spawnable) \cap draw
        k    == Min(n, Cardinality(pool))
    IN  [1..k -> pool]

\* The enemy lists the shuffle and the pops can give when the cells popped
\* are drawn from the set draw: n distinct cells (fewer when they run out).
spawnLists(spawnable, draw, n) ==
    LET pool == Range(spawnable) \cap draw
        k    == Min(n, Cardinality(pool))
    IN  {e \in [1..k -> pool] : \A i, j \in 1..k : i # j => e[i] # e[j]}

\* The body of the enemy loop for enemy i, whose path to the player is path,
\* and the loop from enemy i on.  returned says that the loop left endTurn
\* (state failure, or a throw).
RECURSIVE enemyLoop(_, _)
RECURSIVE enemyStep(_, _, _)
RECURSIVE enemyMoved(_, _)
enemyLoop(g, i) ==
    IF i > Len(g.enemies) THEN [g |-> g, returned |-> FALSE]
    ELSE enemyStep(g, i, pathBetween(g.color, g.enemies[i], g.playerCell))

\* An enemy that steps onto the first cell of its path whoever stands there.
enemyStepBold(g, i, path) ==
    IF path.found /\ Len(path.path) = 0
    THEN [g |-> [g EXCEPT !.threw = TRUE], returned |-> TRUE]
    ELSE IF path.found
    THEN enemyMoved([g EXCEPT !.enemies[i] = path.path[1]], i)
    ELSE enemyMoved(g, i)

\* An enemy that follows its path to the exit instead of the path given.
enemyStepToExit(g, i, path) ==
    LET way == pathBetween(g.color, g.enemies[i], g.exitCell)
    IN  IF way.found /\ Len(way.path) > 0
           /\ isEmpty(g.color, g.playerCell, g.enemies, way.path[1])
        THEN enemyMoved([g EXCEPT !.enemies[i] = way.path[1]], i)
        ELSE enemyMoved(g, i)

\* An enemy that walks two cells of its path when the path has them.
enemyStepFar(g, i, path) ==
    IF path.found /\ Len(path.path) = 0
    THEN [g |-> [g EXCEPT !.threw = TRUE], returned |-> TRUE]
    ELSE IF /\ path.found
            /\ \/ path.path[1] = g.playerCell
               \/ isEmpty(g.color, g.playerCell, g.enemies, path.path[1])
    THEN enemyMoved([g EXCEPT !.enemies[i] =
                         path.path[IF Len(path.path) >= 3 THEN 2 ELSE 1]], i)
    ELSE enemyMoved(g, i)

enemyStep(g, i, path) ==
    IF path.found /\ Len(path.path) = 0
    THEN \* path[0] is undefined: path[0].isEmpty throws
         [g |-> [g EXCEPT !.threw = TRUE], returned |-> TRUE]
    ELSE IF /\ path.found
            /\ \/ path.path[1] = g.playerCell
               \/ isEmpty(g.color, g.playerCell, g.enemies, path.path[1])
    THEN enemyMoved([g EXCEPT !.enemies[i] = path.path[1]], i)
    ELSE enemyMoved(g, i)

\* An enemy loop that goes on to the later enemies after a capture.
enemyMovedOn(g, i) ==
    IF g.enemies[i] = g.playerCell
    THEN [g |-> enemyLoop([g EXCEPT !.state = "failure"], i + 1).g, returned |-> TRUE]
    ELSE enemyLoop(g, i + 1)

enemyMoved(g, i) ==
    IF g.enemies[i] = g.playerCell
    THEN [g |-> [g EXCEPT !.state = "failure"], returned |-> TRUE]
    ELSE enemyLoop(g, i + 1)

\* An end of endTurn that does not look at the teleport charges.
afterEnemiesAnyCharge(r) ==
    IF r.returned THEN r.g
    ELSE IF ~pathBetween(r.g.color, r.g.playerCell, r.g.exitCell).found
         THEN [r.g EXCEPT !.state = "stuck"]
         ELSE r.g

\* The end of endTurn, after the enemy loop was left with r.
afterEnemies(r) ==
    IF r.returned THEN r.g
    ELSE IF /\ r.g.numTeleports = 0
            /\ ~pathBetween(r.g.color, r.g.playerCell, r.g.exitCell).found
         THEN [r.g EXCEPT !.state = "stuck"]
         ELSE r.g

\* An endTurn that runs the enemies on a success as well.
turnEnemiesToo(g) ==
    IF g.playerCell = g.exitCell
    THEN afterEnemies(enemyLoop([g EXCEPT !.state = "success"], 1))
    ELSE afterEnemies(enemyLoop(g, 1))

\* endTurn on a game whose turns are already counted.
turn(g) ==
    IF g.playerCell = g.exitCell THEN [g EXCEPT !.state = "success"]
    ELSE afterEnemies(enemyLoop(g, 1))

endTurn(g) == turn([g EXCEPT !.turns = @ + 1])

\* placeBarrier: every cell of start.lineTo(end) turns BARRIER.
paint(g, cells) ==
    [g EXCEPT !.color = [c \in Cells |-> IF c \in cells THEN BARRIER ELSE g.color[c]],
              !.barriers = @ + 1]

\* A placeBarrier that flips every cell of the whole line: an open cell
\* turns BARRIER and a cell that is not open turns BLANK.
placeBarrierFlip(g, start, end) ==
    LET line  == lineBetween(hexOf[start], hexOf[end])
        cells == {get(line[k]) : k \in 1..Len(line)} \ {noCell}
    IN  [g EXCEPT !.color = [c \in Cells |->
                                IF c \notin cells THEN g.color[c]
                                ELSE IF g.color[c] = BLANK THEN BARRIER ELSE BLANK],
                  !.barriers = @ + 1]

placeBarrier(g, start, end) == paint(g, Range(lineTo(g.color, start, end)))

(***************************************************************************)
(* Bounds of the model.                                                    *)
(***************************************************************************)

\* Under Spec, endTurn runs at most MaxTurns times and placeBarrier at most
\* MaxBarriers times.
MaxTurns == 2

MaxBarriers == 1

\* Under SpecRun, endTurn runs at most MaxRunTurns times on the first level
\* and at most MaxLaterTurns times more on a later one; nextLevel is not
\* called after a success on level MaxLevel.
MaxRunTurns == 13

MaxLaterTurns == 2

MaxLevel == 2

\* Under SpecCalls, endTurn runs at most MaxCallTurns times.
MaxCallTurns == 3

\* Under SpecHex, lines end and rings reach at most MaxHexRadius from the
\* centre, and rings start at a radius of at most MaxStartRadius.
MaxHexRadius == 7

MaxStartRadius == 2

\* The hexes Spec clicks besides the player's, the exit's and the enemies'
\* cells: the centre of the mountain, and the two hexes next to the player's
\* start on either side of the row r = 5, edgeHex on the board's edge and
\* farHex towards the exit.
edgeHex == <<-3, 7, -4>>

farHex == <<-2, 4, -2>>

pointHexes == {zero, edgeHex, farHex}

\* The hexes Spec moves the cursor to when a barrier is drawn: the two ends
\* of the row r = 5, which lies between the player's start and the rest of
\* the board, and the hex opposite rowEndA across the mountain.
rowEndA == <<-7, 5, 2>>

rowEndB == <<2, 5, -7>>

acrossHex == <<7, -5, -2>>

hoverHexes == {rowEndA, rowEndB, acrossHex}

\* A hex on the exit's side of the mountain that SpecRun clicks, to walk
\* towards and to teleport to.
leapHex == <<-2, -2, 4>>

\* The cells the shuffle of setupBoard is let draw the enemies from.
spawnHexes == {<<-3, 4, -1>>, <<-3, 3, 0>>, <<0, -3, 3>>}

(***************************************************************************)
(* The state: the Game's fields, the GameView's fields that its handlers   *)
(* read (selectedAbility, barrierStart, cursor), and threw, turns and      *)
(* barriers.  call is the application of one of the program's functions    *)
(* that SpecHex and SpecSearch follow on its own; under the other          *)
(* specifications no such application is followed and call stays idle.     *)
(***************************************************************************)

VARIABLES color, playerCell, exitCell, enemies, numTeleports, level, state,
          selectedAbility, barrierStart, cursor, threw, turns, barriers,
          call

gameVars == <<color, playerCell, exitCell, enemies, numTeleports, level, state>>

viewVars == <<selectedAbility, barrierStart, cursor>>

vars == <<color, playerCell, exitCell, enemies, numTeleports, level, state,
          selectedAbility, barrierStart, cursor, threw, turns, barriers, call>>

idle == [fn |-> "none"]

\* The game value of the current state.
game ==
    [color |-> color, playerCell |-> playerCell, exitCell |-> exitCell,
     enemies |-> enemies, numTeleports |-> numTeleports, level |-> level,
     state |-> state, threw |-> FALSE, turns |-> turns, barriers |-> barriers]

\* The next state's Game fields, threw and turns are those of g.
becomes(g) ==
    /\ color' = g.color
    /\ playerCell' = g.playerCell
    /\ exitCell' = g.exitCell
    /\ enemies' = g.enemies
    /\ numTeleports' = g.numTeleports
    /\ level' = g.level
    /\ state' = g.state
    /\ threw' = g.threw
    /\ turns' = g.turns
    /\ barriers' = g.barriers

pointCells == {get(h) : h \in pointHexes}

spawnDraw == {get(h) : h \in spawnHexes}

hoverCells == {get(h) : h \in hoverHexes}

\* setupBoard with the exit looked up two rows off the board.
setupBoardOffGrid(g, spawned) ==
    [g EXCEPT !.color = setupColor,
              !.exitCell = get(<<3, -8, 5>>),
              !.playerCell = playerStart,
              !.enemies = spawned]

\* setupBoard patching the old grid instead of building a new one.
setupBoardPatch(g, spawned) ==
    [g EXCEPT !.color = [c \in Cells |-> IF setupColor[c] = MOUNTAIN THEN MOUNTAIN ELSE @[c]],
              !.exitCell = get(exitHex),
              !.playerCell = playerStart,
              !.enemies = spawned]

\* setupBoard on a game of the given level: the fixed board and one of the
\* enemy lists the shuffle can give.
setupBoard(g, spawned) ==
    [g EXCEPT !.color = setupColor,
              !.exitCell = get(exitHex),
              !.playerCell = playerStart,
              !.enemies = spawned]

spawns(lvl) ==
    spawnLists(spawnableCells(setupColor, playerStart, get(exitHex)),
               spawnDraw, numEnemies(lvl))

\* new Game() and the GameView's field initialisers.
InitGame ==
    /\ \E spawned \in spawns(1) :
          /\ color = setupColor
          /\ exitCell = get(exitHex)
          /\ playerCell = playerStart
          /\ enemies = spawned
    /\ numTeleports = 1
    /\ level = 1
    /\ state = "game"
    /\ selectedAbility = "none"
    /\ barrierStart = noCell
    /\ cursor = noCell
    /\ threw = FALSE
    /\ turns = 0
    /\ barriers = 0

Init == InitGame /\ call = idle

(***************************************************************************)
(* GameView's handlers                                                     *)
(***************************************************************************)

\* A teleport that leaves the player in place when no path leads to cell.
teleportClickWalk(cell) ==
    IF cell \in Range(circle(playerCell, 6))
    THEN /\ becomes(endTurn([game EXCEPT
                 !.playerCell = IF pathBetween(color, playerCell, cell).found THEN cell ELSE @,
                 !.numTeleports = @ - 1]))
         /\ selectedAbility' = "none"
         /\ UNCHANGED <<barrierStart, cursor>>
    ELSE /\ threw' = FALSE
         /\ UNCHANGED <<gameVars, viewVars, turns, barriers>>

\* The teleport branch of onMouseDown.
teleportClick(cell) ==
    IF cell \in Range(circle(playerCell, 6))
    THEN /\ becomes(endTurn([game EXCEPT !.playerCell = cell,
                                         !.numTeleports = @ - 1]))
         /\ selectedAbility' = "none"
         /\ UNCHANGED <<barrierStart, cursor>>
    ELSE /\ threw' = FALSE
         /\ UNCHANGED <<gameVars, viewVars, turns, barriers>>

\* The barrier branch of onMouseDown.
barrierClick ==
    IF barrierStart = noCell
    THEN /\ barrierStart' = cursor
         /\ threw' = FALSE
         /\ UNCHANGED <<gameVars, selectedAbility, cursor, turns, barriers>>
    ELSE /\ becomes(endTurn(placeBarrier(game, barrierStart, cursor)))
         /\ selectedAbility' = "none"
         /\ barrierStart' = noCell
         /\ UNCHANGED cursor

\* A move that takes two steps along the path when it has them.
moveAlongFar(path) ==
    IF path.found /\ Len(path.path) = 0
    THEN /\ threw' = TRUE
         /\ UNCHANGED <<gameVars, viewVars, turns, barriers>>
    ELSE IF path.found /\ isEmpty(color, playerCell, enemies, path.path[1])
    THEN /\ becomes(endTurn([game EXCEPT
                 !.playerCell = path.path[IF Len(path.path) >= 2 THEN 2 ELSE 1]]))
         /\ UNCHANGED viewVars
    ELSE /\ threw' = FALSE
         /\ UNCHANGED <<gameVars, viewVars, turns, barriers>>

\* The move branch of onMouseDown, path being the path to the cell clicked.
moveAlong(path) ==
    IF path.found /\ Len(path.path) = 0
    THEN \* path[0] is undefined: path[0].isEmpty throws
         /\ threw' = TRUE
         /\ UNCHANGED <<gameVars, viewVars, turns, barriers>>
    ELSE IF path.found /\ isEmpty(color, playerCell, enemies, path.path[1])
    THEN /\ becomes(endTurn([game EXCEPT !.playerCell = path.path[1]]))
         /\ UNCHANGED viewVars
    ELSE /\ threw' = FALSE
         /\ UNCHANGED <<gameVars, viewVars, turns, barriers>>

moveClick(cell) == moveAlong(pathBetween(color, playerCell, cell))

onMouseDown(cell) ==
    IF selectedAbility = "teleport" THEN teleportClick(cell)
    ELSE IF selectedAbility = "barrier" THEN barrierClick
    ELSE moveClick(cell)

onMouseMove(cell) ==
    /\ cursor' = cell
    /\ threw' = FALSE
    /\ UNCHANGED <<gameVars, selectedAbility, barrierStart, turns, barriers>>

toggleSelectBarrier ==
    /\ selectedAbility' = IF selectedAbility = "barrier" THEN "none" ELSE "barrier"
    /\ barrierStart' = noCell
    /\ threw' = FALSE
    /\ UNCHANGED <<gameVars, cursor, turns, barriers>>

toggleSelectTeleport ==
    /\ selectedAbility' = IF selectedAbility = "teleport" THEN "none" ELSE "teleport"
    /\ threw' = FALSE
    /\ UNCHANGED <<gameVars, barrierStart, cursor, turns, barriers>>

\* nextLevel keeping the level when the game was not won.
nextLevelKeep ==
    /\ LET lvl == IF state = "success" THEN level + 1 ELSE level
       IN  \E spawned \in spawns(lvl) :
              becomes(setupBoard([game EXCEPT !.level = lvl,
                                              !.numTeleports = 1,
                                              !.state = "game"], spawned))
    /\ UNCHANGED viewVars

nextLevel ==
    /\ LET lvl == IF state = "success" THEN level + 1 ELSE 1
       IN  \E spawned \in spawns(lvl) :
              becomes(setupBoard([game EXCEPT !.level = lvl,
                                              !.numTeleports = 1,
                                              !.state = "game"], spawned))
    /\ UNCHANGED viewVars

(***************************************************************************)
(* What GameView.render puts on the page: the tiles and the ability        *)
(* buttons while state is 'game' (the teleport button disabled without a   *)
(* charge), and the end view with its nextLevel button otherwise.          *)
(***************************************************************************)

boardShown == state = "game"

\* A teleport button that is never disabled.
teleportButtonAlways == state = "game"

teleportButtonEnabled == state = "game" /\ numTeleports # 0

endViewShown == state # "game"

(***************************************************************************)
(* Spec: the page driven by a player who clicks any of targets and draws   *)
(* barriers between the hover cells, for MaxTurns turns a level.  The      *)
(* mouse moves are modelled while the barrier ability is selected, the     *)
(* only time a handler reads the cursor.                                   *)
(***************************************************************************)

targets == {playerCell, exitCell} \cup Range(enemies) \cup pointCells

MouseDown ==
    \E cell \in targets :
        /\ boardShown
        /\ turns < MaxTurns
        /\ selectedAbility = "barrier" => barriers < MaxBarriers
        /\ onMouseDown(cell)
        /\ UNCHANGED call

MouseMove ==
    \E cell \in hoverCells :
        boardShown /\ selectedAbility = "barrier" /\ onMouseMove(cell) /\ UNCHANGED call

ClickBarrier == boardShown /\ toggleSelectBarrier /\ UNCHANGED call

ClickTeleport == teleportButtonEnabled /\ toggleSelectTeleport /\ UNCHANGED call

ClickNextLevel == endViewShown /\ nextLevel /\ UNCHANGED call

Next == MouseDown \/ MouseMove \/ ClickBarrier \/ ClickTeleport \/ ClickNextLevel

Spec == Init /\ [][Next]_vars

(***************************************************************************)
(* SpecRun: the page driven by a player who only walks and teleports,      *)
(* only clicks the exit's, an enemy's or the player's own cell or the      *)
(* cell of leapHex, and goes on to the next level after a success: the     *)
(* long runs.                                                              *)
(***************************************************************************)

runTargets == {playerCell, exitCell, get(leapHex)} \cup Range(enemies)

RunMouseDown ==
    \E cell \in runTargets :
        /\ boardShown
        /\ turns < (IF level = 1 THEN MaxRunTurns ELSE MaxRunTurns + MaxLaterTurns)
        /\ onMouseDown(cell)
        /\ UNCHANGED call

RunClickNextLevel ==
    /\ endViewShown
    /\ state = "success"
    /\ level < MaxLevel
    /\ nextLevel
    /\ UNCHANGED call

NextRun == RunMouseDown \/ ClickTeleport \/ RunClickNextLevel

SpecRun == Init /\ [][NextRun]_vars

(***************************************************************************)
(* SpecCalls: the handlers called whatever the page shows, as a script     *)
(* holding window.game and window.gameView can call them, and as the       *)
(* engine's own contract has to be read: neither the handlers nor the      *)
(* engine look at state.                                                   *)
(***************************************************************************)

CallMouseDown ==
    \E cell \in runTargets :
        /\ turns < MaxCallTurns
        /\ onMouseDown(cell)
        /\ UNCHANGED call

CallSelectTeleport == toggleSelectTeleport /\ UNCHANGED call

CallNextLevel == (state = "success" => level < MaxLevel) /\ nextLevel /\ UNCHANGED call

NextCalls == CallMouseDown \/ CallSelectTeleport \/ CallNextLevel

SpecCalls == Init /\ [][NextCalls]_vars

(***************************************************************************)
(* SpecLevels: the player of SpecRun, and nextLevel called in any state,   *)
(* also in the middle of a level: the level transitions.                   *)
(***************************************************************************)

NextLevels == RunMouseDown \/ ClickTeleport \/ CallNextLevel

SpecLevels == Init /\ [][NextLevels]_vars

(***************************************************************************)
(* SpecHex: one application of a function of Hex or of Cell.circle to      *)
(* arguments drawn from bounded sets; call holds the arguments and, once   *)
(* the function has returned, its result.                                  *)
(***************************************************************************)

\* The hexes within MaxHexRadius of the centre of the board.
hexesAround == rings(zero, 0, MaxHexRadius + 1)

\* The hexes lines start from and rings are centred on: the centre, the
\* player's start, a corner and the cells next to it, and cells off the axes.
fromHexes ==
    {zero, <<-3, 6, -3>>, <<0, 7, -7>>, <<1, 6, -7>>, <<-7, 5, 2>>, <<2, -5, 3>>}

lineCalls ==
    {[fn |-> "lineBetween", a |-> a, b |-> hexesAround[k], done |-> FALSE, result |-> <<>>] :
        a \in fromHexes, k \in 1..Len(hexesAround)}

ringCalls ==
    {[fn |-> "ring", center |-> c, radius |-> r, done |-> FALSE, result |-> <<>>] :
        c \in fromHexes, r \in 0..MaxHexRadius}

ringsCalls ==
    {[fn |-> "rings", center |-> c, startRadius |-> r0, endRadius |-> r1,
      done |-> FALSE, result |-> <<>>] :
        c \in fromHexes, r0 \in 0..MaxStartRadius, r1 \in 0..MaxHexRadius}

circleCalls ==
    {[fn |-> "circle", cell |-> get(h), radius |-> n, done |-> FALSE, result |-> <<>>] :
        h \in fromHexes, n \in 0..MaxHexRadius}

InitHex == InitGame /\ call \in lineCalls \cup ringCalls \cup ringsCalls \cup circleCalls

returns(result) ==
    /\ ~call.done
    /\ call' = [call EXCEPT !.done = TRUE, !.result = result]
    /\ UNCHANGED <<gameVars, viewVars, threw, turns, barriers>>

CallLineBetween == call.fn = "lineBetween" /\ returns(lineBetween(call.a, call.b))

CallRing == call.fn = "ring" /\ returns(ring(call.center, call.radius))

CallRings ==
    call.fn = "rings" /\ returns(rings(call.center, call.startRadius, call.endRadius))

CallCircle == call.fn = "circle" /\ returns(circle(call.cell, call.radius))

NextHex == CallLineBetween \/ CallRing \/ CallRings \/ CallCircle

SpecHex == InitHex /\ [][NextHex]_vars

(***************************************************************************)
(* SpecSearch: one call of pathBetween followed turn by turn of its while  *)
(* loop, on a terrain and for a start and a goal drawn from bounded sets.  *)
(* call holds the arguments, the frontier and the two Maps (st), the cells *)
(* in the order they were pushed (order), the number of pops and, after    *)
(* the return, the result.                                                 *)
(***************************************************************************)

\* The colours after placeBarrier(a, b) on a board of colours clr.
barrierOn(clr, a, b) ==
    LET cells == Range(lineTo(clr, get(a), get(b)))
    IN  [c \in Cells |-> IF c \in cells THEN BARRIER ELSE clr[c]]

\* The corner of the board; after a barrier along the row behind it and one
\* on its third neighbour, all its neighbours are barrier cells.
cornerHex == <<0, 7, -7>>

besideCornerHex == <<-1, 7, -6>>

cornerTerrain ==
    barrierOn(barrierOn(setupColor, <<1, 6, -7>>, <<-1, 6, -5>>),
              besideCornerHex, besideCornerHex)

\* The terrains searched: the fresh board, the board with the row r = 5
\* made a barrier, and the board with the corner enclosed.
terrains == {setupColor, barrierOn(setupColor, rowEndA, rowEndB), cornerTerrain}

\* A cell of the mountain next to its centre.
mountainHex == <<-1, 1, 0>>

startHexes == {<<-3, 6, -3>>, zero, mountainHex, besideCornerHex, farHex}

goalHexes == {<<-3, 6, -3>>, zero, cornerHex, exitHex, <<-3, 3, 0>>}

searchStart(start) ==
    [frontier  |-> push(<<>>, start, 0),
     cameFrom  |-> [c \in Cells |-> IF c = start THEN undefined ELSE absent],
     costSoFar |-> [c \in Cells |-> IF c = start THEN 0 ELSE absent],
     done      |-> FALSE]

searchCalls ==
    {[fn |-> "pathBetween", color |-> clr, start |-> get(s), goal |-> get(g),
      st |-> searchStart(get(s)), order |-> <<get(s)>>, pops |-> 0,
      done |-> FALSE, result |-> [found |-> FALSE, path |-> <<>>]] :
        clr \in terrains, s \in startHexes, g \in goalHexes}

InitSearch == InitGame /\ call \in searchCalls

\* The cells one turn of the loop pushed, in the order of the pushes: the
\* neighbours of the cell popped whose cost the turn has set.
pushedBy(st, next) ==
    IF Len(next.frontier) < Len(st.frontier) THEN <<>>
    ELSE SelectSeq(CellNeighbors(st.frontier[1].value),
                   LAMBDA n : next.costSoFar[n] # st.costSoFar[n])

searchTurn(next) ==
    call' = [call EXCEPT !.st = next,
                         !.order = @ \o pushedBy(call.st, next),
                         !.pops = @ + 1]

\* One turn of the while loop of pathBetween.
SearchTurn ==
    /\ call.fn = "pathBetween"
    /\ ~call.done
    /\ ~ended(call.st)
    /\ searchTurn(searchStep(call.color, call.start, call.goal, call.st))
    /\ UNCHANGED <<gameVars, viewVars, threw, turns, barriers>>

\* The end of pathBetween: the walk back along cameFrom, or undefined.
SearchReturn ==
    /\ call.fn = "pathBetween"
    /\ ~call.done
    /\ ended(call.st)
    /\ call' = [call EXCEPT !.done = TRUE,
                            !.result = pathFrom(call.st.cameFrom, call.start, call.goal)]
    /\ UNCHANGED <<gameVars, viewVars, threw, turns, barriers>>

NextSearch == SearchTurn \/ SearchReturn

SpecSearch == InitSearch /\ [][NextSearch]_vars

(***************************************************************************)
(* The properties of the turn engine                                       *)
(***************************************************************************)

\* The path exists and cell is its first cell.
firstStepIs(path, cell) ==
    /\ path.found
    /\ Len(path.path) > 0
    /\ path.path[1] = cell

\* The path exists and its first cell is empty.
firstStepFree(path, clr, player, others) ==
    /\ path.found
    /\ Len(path.path) > 0
    /\ isEmpty(clr, player, others, path.path[1])

\* C1: when a turn ends in failure, one enemy stands on the player's cell,
\* no enemy before it in the list does, and every enemy after it in the
\* list is where it was before the turn.
C1_CaptureStopsTheLoop ==
    [][(state = "game" /\ state' = "failure") =>
          \E i \in 1..Len(enemies) :
              /\ enemies'[i] = playerCell'
              /\ \A j \in 1..(i - 1) : enemies'[j] # playerCell'
              /\ \A j \in (i + 1)..Len(enemies) : enemies'[j] = enemies[j]]_vars

\* C1: a failure in which the first of two enemies made the capture and the
\* second, which had a step to take, was not processed.
C1_Witness ==
    /\ state = "failure"
    /\ Len(enemies) = 2
    /\ enemies[1] = playerCell
    /\ enemies[2] # playerCell
    /\ \E next \in Cells :
           /\ firstStepIs(pathBetween(color, enemies[2], playerCell), next)
           /\ next = playerCell \/ isEmpty(color, playerCell, enemies, next)

\* C2: a turn that finds the player on the exit sets success, moves no enemy
\* and raises nothing.
C2_SuccessStopsTheTurn ==
    [][(turns' = turns + 1 /\ playerCell' = exitCell') =>
          (state' = "success" /\ enemies' = enemies /\ ~threw')]_vars

\* C2: a success with an enemy on a cell adjacent to the player's.
C2_Witness ==
    /\ state = "success"
    /\ playerCell = exitCell
    /\ \E i \in 1..Len(enemies) :
           distance(hexOf[enemies[i]], hexOf[playerCell]) = 1

\* The enemy list at the moment enemy i is processed: the enemies before it
\* have moved, the others have not.
C3_mid(i) == [j \in 1..Len(enemies) |-> IF j < i THEN enemies'[j] ELSE enemies[j]]

\* The cell enemy i is to end the turn on, path being its path to the player.
C3_expected(i, path) ==
    IF /\ path.found
       /\ Len(path.path) > 0
       /\ \/ path.path[1] = playerCell'
          \/ /\ color'[path.path[1]] = BLANK
             /\ path.path[1] # playerCell'
             /\ \A j \in 1..Len(enemies) : C3_mid(i)[j] # path.path[1]
    THEN path.path[1]
    ELSE enemies[i]

\* C3: in a turn that runs the enemy loop, every enemy the loop gets to ends
\* on the first cell of its path to the player if that path exists and its
\* first cell is the player's or is empty at that moment, and on its own
\* cell otherwise.
C3_EnemyStep ==
    [][(turns' = turns + 1 /\ state' # "success") =>
          \A i \in 1..Len(enemies) :
              (\A j \in 1..(i - 1) : enemies'[j] # playerCell') =>
                  enemies'[i] =
                      C3_expected(i, pathBetween(color', enemies[i], playerCell'))]_vars

\* C3: on the second level the player used the charge without leaving the
\* start; the first enemy, whose path begins on the second enemy's cell,
\* is still where it spawned and the second has stepped next to the player.
C3_Witness ==
    /\ level = 2
    /\ state = "game"
    /\ numTeleports = 0
    /\ playerCell = playerStart
    /\ enemies = <<get(<<-3, 3, 0>>), get(<<-3, 5, -2>>)>>

\* C4: a turn that returns with neither success nor failure leaves the state
\* stuck if the charges are 0 and no path leads from the player to the exit,
\* and in progress otherwise.
C4_StuckIff ==
    [][(turns' = turns + 1 /\ state' \notin {"success", "failure"} /\ ~threw') =>
          state' = IF numTeleports' = 0
                      /\ ~pathBetween(color', playerCell', exitCell').found
                   THEN "stuck" ELSE "game"]_vars

\* C4: the game is stuck: the player stands on an open cell that the barrier
\* has cut off from the exit, and has no charge.
C4_Witness ==
    /\ state = "stuck"
    /\ barriers = 1
    /\ color[playerCell] = BLANK
    /\ numTeleports = 0
    /\ ~pathBetween(color, playerCell, exitCell).found

\* C5: in a terminal state a step either is nextLevel or leaves the game's
\* fields as they are.
C5_TerminalIsFrozen ==
    [][state # "game" => (UNCHANGED gameVars \/ nextLevel)]_vars

\* The move request for cell is one the player cannot make: no path, or no
\* first step, or a first step that is not empty.
moveRefused(cell) ==
    ~firstStepFree(pathBetween(color, playerCell, cell), color, playerCell, enemies)

\* C6: a move request that cannot be made raises nothing and changes nothing.
C6_RefusedMoveIsSilent ==
    [][\A cell \in targets :
          (boardShown /\ selectedAbility = "none" /\ moveRefused(cell) /\ onMouseDown(cell))
              => (~threw' /\ UNCHANGED <<gameVars, turns>>)]_vars

\* C7: a step that moves the player or resolves a turn with no ability
\* selected puts the player on the first cell of the path to one of the
\* targets, a cell adjacent to the old one that was empty, and resolves one
\* turn.
C7_OneStep ==
    [][(state = "game" /\ selectedAbility = "none"
            /\ (playerCell' # playerCell \/ turns' # turns)) =>
          /\ turns' = turns + 1
          /\ distance(hexOf[playerCell], hexOf[playerCell']) = 1
          /\ isEmpty(color, playerCell, enemies, playerCell')
          /\ \E cell \in targets :
                 firstStepIs(pathBetween(color, playerCell, cell), playerCell')]_vars

\* C7: after the first turn of the first level, a move: the player has left
\* the start with the charge and without a barrier.
C7_Witness ==
    /\ level = 1
    /\ turns = 1
    /\ numTeleports = 1
    /\ barriers = 0
    /\ state = "game"
    /\ distance(hexOf[playerStart], hexOf[playerCell]) = 1

\* The teleport request for cell is one the rules refuse.
teleportRefused(cell) ==
    \/ numTeleports = 0
    \/ cell \notin Range(circle(playerCell, 6))
    \/ ~isEmpty(color, playerCell, enemies, cell)

\* C8: a teleport request that the rules refuse changes nothing.
C8_RefusedTeleportIsNoOp ==
    [][\A cell \in targets :
          (boardShown /\ selectedAbility = "teleport" /\ teleportRefused(cell)
                /\ onMouseDown(cell))
              => UNCHANGED <<gameVars, turns>>]_vars

\* C9: a teleport request that the rules allow puts the player on the
\* target, takes one charge and resolves one turn.
C9_Teleport ==
    [][\A cell \in targets :
          (boardShown /\ selectedAbility = "teleport" /\ ~teleportRefused(cell)
                /\ onMouseDown(cell))
              => /\ playerCell' = cell
                 /\ numTeleports' = numTeleports - 1
                 /\ turns' = turns + 1]_vars

\* C9: in the two turns of a barrier and a teleport the player has gone
\* from the start to farHex, to which no path leads across the barrier.
C9_Witness ==
    /\ numTeleports = 0
    /\ barriers = 1
    /\ turns = 2
    /\ playerCell = get(farHex)
    /\ ~pathBetween(color, playerStart, playerCell).found

\* The cells of the longest prefix of line whose hexes all have a pathable
\* cell.
C10_prefix(line) ==
    {get(line[k]) :
        k \in {n \in 1..Len(line) :
                  \A m \in 1..n : /\ get(line[m]) # noCell
                                  /\ color[get(line[m])] = BLANK}}

\* The step turns cells into barrier and changes no other colour.
C10_paints(cells) ==
    \A c \in Cells : color'[c] = IF c \in cells THEN BARRIER ELSE color[c]

\* C10: a step that places a barrier turns into barrier the cells of the
\* longest prefix of lineBetween(barrierStart, cursor) whose hexes all have
\* a pathable cell, and changes the colour of no other cell.
C10_BarrierIsThePrefix ==
    [][barriers' = barriers + 1 =>
          C10_paints(C10_prefix(lineBetween(hexOf[barrierStart], hexOf[cursor])))]_vars

\* C10: a barrier drawn from rowEndA towards acrossHex has stopped at the
\* mountain.
C10_Witness ==
    /\ barriers = 1
    /\ color[get(rowEndA)] = BARRIER
    /\ color[get(<<-2, 1, 1>>)] = BARRIER
    /\ color[get(<<-1, 1, 0>>)] = MOUNTAIN
    /\ color[get(<<2, -1, -1>>)] = BLANK
    /\ color[get(acrossHex)] = BLANK

(***************************************************************************)
(* The invariants of the board                                             *)
(***************************************************************************)

\* C11: every enemy stands on a pathable cell.
C11_EnemiesOnOpenCells ==
    \A i \in 1..Len(enemies) : isPathable(color, enemies[i])

\* C12: the player stands on a pathable cell.
C12_PlayerOnOpenCell == isPathable(color, playerCell)

\* C13: no two enemies stand on the same cell.
C13_EnemiesApart ==
    \A i, j \in 1..Len(enemies) : i # j => enemies[i] # enemies[j]

\* C14: the player's cell and the exit's cell are cells of the grid, and the
\* exit's cell changes in no step other than nextLevel.
C14_OnTheGrid ==
    /\ playerCell \in Cells
    /\ exitCell \in Cells
    /\ [][/\ playerCell' \in Cells
          /\ exitCell' \in Cells
          /\ exitCell' = exitCell \/ nextLevel]_vars

\* C14: a teleport has put the player on the cell of edgeHex, on the rim of
\* the grid, and the exit is where setupBoard put it.
C14_Witness ==
    /\ turns > 0
    /\ playerCell = get(edgeHex)
    /\ numTeleports = 0
    /\ hexOf[exitCell] = <<3, -6, 3>>

eligible(clr, player, exit) ==
    {c \in Cells : /\ clr[c] = BLANK
                   /\ c # player
                   /\ c # exit
                   /\ distance(hexOf[c], hexOf[player]) # 1}

C16_placed ==
    /\ \A i \in 1..Len(enemies) : enemies[i] \in eligible(color, playerCell, exitCell)
    /\ \A i, j \in 1..Len(enemies) : i # j => enemies[i] # enemies[j]
    /\ Len(enemies) = Min(level, Cardinality(eligible(color, playerCell, exitCell)))
    /\ hexOf[playerCell] = <<-3, 6, -3>>

C17_NextLevel ==
    [][nextLevel =>
          /\ level' = IF state = "success" THEN level + 1 ELSE 1
          /\ numTeleports' = 1
          /\ state' = "game"]_vars

\* C17: level 2 has been entered from a success and then left, for level 1,
\* by a nextLevel that was not called from a success.
C17_Witness ==
    /\ level = 1
    /\ turns > MaxRunTurns
    /\ numTeleports = 1
    /\ state = "game"

\* C18: after nextLevel the non-pathable cells are the seven mountain cells,
\* the player is on (-3,6,-3), the exit on (3,-6,3), and every enemy on a cell
\* free for a spawn on that new board.
C18_NewBoard ==
    [][nextLevel =>
          /\ \A c \in Cells :
                color'[c] = IF distance(hexOf[c], zero) < 2 THEN MOUNTAIN ELSE BLANK
          /\ hexOf[playerCell'] = <<-3, 6, -3>>
          /\ hexOf[exitCell'] = <<3, -6, 3>>
          /\ Len(enemies') = level'
          /\ \A i \in 1..Len(enemies') :
                enemies'[i] \in eligible(color', playerCell', exitCell')]_vars

\* C18: a level on which a barrier was drawn has been left by nextLevel, and
\* no cell is a barrier.
C18_Witness ==
    /\ barriers = 1
    /\ turns > 0
    /\ state = "game"
    /\ playerCell = playerStart
    /\ numTeleports = 1
    /\ \A c \in Cells : color[c] # BARRIER

(***************************************************************************)
(* The properties of pathBetween, on the boards of Spec and for the calls  *)
(* the program makes on them: from an enemy to the player, from the player *)
(* to the exit and from the player to a clicked cell.                      *)
(***************************************************************************)

searches ==
    {<<enemies[i], playerCell>> : i \in 1..Len(enemies)}
        \cup {<<playerCell, c>> : c \in {exitCell} \cup pointCells}

adjacent(a, b) == distance(hexOf[a], hexOf[b]) = 1

wellFormed(clr, start, goal, p) ==
    /\ Len(p) > 0
    /\ adjacent(start, p[1])
    /\ \A k \in 1..(Len(p) - 1) : adjacent(p[k], p[k + 1])
    /\ p[Len(p)] = goal
    /\ \A k \in 1..Len(p) : p[k] # start
    /\ \A k \in 1..Len(p) : p[k] # goal => clr[p[k]] = BLANK

C19_holds(clr, start, goal, r) == r.found => wellFormed(clr, start, goal, r.path)

\* C19: a path returned for start # goal starts next to start, goes from
\* neighbour to neighbour, ends on goal, does not hold start, and all its
\* cells but goal are pathable.
C19_PathIsWellFormed ==
    \A s \in searches :
        s[1] # s[2] => C19_holds(color, s[1], s[2], pathBetween(color, s[1], s[2]))

\* C19: the row y = 5 has been made a barrier, and pathBetween has found the
\* player's way to the exit.
C19_Witness ==
    /\ barriers = 1
    /\ state = "game"
    /\ color[get(<<-3, 5, -2>>)] = BARRIER
    /\ pathBetween(color, playerCell, exitCell).found

adjacentCells == [c \in Cells |-> {n \in Cells : adjacent(c, n)}]

\* The number of steps of a shortest walk from a cell of frontier to goal
\* over neighbouring cells not yet reached that are pathable, or goal; -1
\* when there is none.  d is the number of steps made to reach frontier.
RECURSIVE flood(_, _, _, _, _)
flood(clr, goal, reached, frontier, d) ==
    IF goal \in frontier THEN d
    ELSE IF frontier = {} THEN -1
    ELSE LET next == {n \in UNION {adjacentCells[c] : c \in frontier} \ reached :
                         n = goal \/ clr[n] = BLANK}
         IN  flood(clr, goal, reached \cup next, next, d + 1)

\* No cell that a walk of distance(start, goal) steps can pass is blocked.
straightOpen(clr, start, goal) ==
    \A c \in Cells \ {start, goal} :
        distance(hexOf[start], hexOf[c]) + distance(hexOf[c], hexOf[goal])
            = distance(hexOf[start], hexOf[goal]) => clr[c] = BLANK

C20_holds(clr, start, goal, r) ==
    /\ r.found => Len(r.path) = flood(clr, goal, {start}, {start}, 0)
    /\ r.found /\ straightOpen(clr, start, goal)
          => Len(r.path) = distance(hexOf[start], hexOf[goal])

\* C20: a returned path has the length of a shortest walk over pathable
\* cells, and the length distance(start, goal) when no cell on a walk of
\* that length is blocked.
C20_PathIsShortest ==
    \A s \in searches : C20_holds(color, s[1], s[2], pathBetween(color, s[1], s[2]))

C20_detour(start, goal, r) ==
    r.found /\ Len(r.path) > distance(hexOf[start], hexOf[goal]) + 1

\* C20: a barrier has been drawn, and the player's path to the exit is more
\* than one step longer than the distance.
C20_Witness ==
    /\ barriers = 1
    /\ state = "game"
    /\ C20_detour(playerCell, exitCell, pathBetween(color, playerCell, exitCell))

(***************************************************************************)
(* The properties of Hex, on the applications of SpecHex                   *)
(***************************************************************************)

returned(fn) == call.fn = fn /\ call.done

cubeSum(h) == h[1] + h[2] + h[3]

\* C24: lineBetween(a, b) has distance(a, b) + 1 elements.
C24_LineLength ==
    returned("lineBetween") => Len(call.result) = distance(call.a, call.b) + 1

\* C24: lineBetween has returned the 15 hexes from a corner of the board to
\* the opposite corner.
C24_Witness ==
    /\ returned("lineBetween")
    /\ call.a = <<0, 7, -7>>
    /\ call.b = <<0, -7, 7>>
    /\ Len(call.result) = 15

C25_ring(center, radius, result) ==
    /\ Len(result) = IF radius = 0 THEN 1 ELSE 6 * radius
    /\ \A i, j \in 1..Len(result) : i # j => result[i] # result[j]
    /\ \A i \in 1..Len(result) :
          /\ cubeSum(result[i]) = 0
          /\ distance(center, result[i]) = radius

\* C25: ring(center, radius) has 1 hex for radius 0 and 6 * radius hexes
\* otherwise, pairwise distinct, each with q + r + s = 0 and at distance
\* radius from center.
C25_Ring == returned("ring") => C25_ring(call.center, call.radius, call.result)

\* C25: ring has returned the 42 hexes of a ring of radius 7 around a hex
\* that is not the centre of the board.
C25_Witness ==
    /\ returned("ring")
    /\ call.center = <<2, -5, 3>>
    /\ call.radius = 7
    /\ Len(call.result) = 42

\* The t of sample i of the line from a to b (i from 1), the three lerps at
\* t, their roundings and the rounding errors.
C27_t(a, b, i) == FMulInt([neg |-> FALSE, mag |-> BigInv(distance(a, b))], i - 1)

C27_xyz(a, b, t) == <<lerp(a[1], b[1], t), lerp(a[2], b[2], t), lerp(a[3], b[3], t)>>

C27_rounded(xyz) == <<MathRound(xyz[1]), MathRound(xyz[2]), MathRound(xyz[3])>>

C27_errors(xyz, r) == <<FAbsDiff(r[1], xyz[1]), FAbsDiff(r[2], xyz[2]), FAbsDiff(r[3], xyz[3])>>

C27_atLeast(x, y) == ~BigLess(x, y)

\* The axis of the largest error recomputed; among equal largest errors, q
\* before r before s.
C27_qFirst(r, d) ==
    IF C27_atLeast(d[1], d[2]) /\ C27_atLeast(d[1], d[3]) THEN <<-r[2] - r[3], r[2], r[3]>>
    ELSE IF C27_atLeast(d[2], d[3]) THEN <<r[1], -r[1] - r[3], r[3]>>
    ELSE <<r[1], r[2], -r[1] - r[2]>>

\* The axis of the largest error recomputed; among equal largest errors, s
\* before r before q.
C27_sFirst(r, d) ==
    IF C27_atLeast(d[3], d[1]) /\ C27_atLeast(d[3], d[2]) THEN <<r[1], r[2], -r[1] - r[2]>>
    ELSE IF C27_atLeast(d[2], d[1]) THEN <<r[1], -r[1] - r[3], r[3]>>
    ELSE <<-r[2] - r[3], r[2], r[3]>>

C27_byQ(xyz, r) == C27_qFirst(r, C27_errors(xyz, r))

C27_byS(xyz, r) == C27_sFirst(r, C27_errors(xyz, r))

C27_sampleQ(xyz) == C27_byQ(xyz, C27_rounded(xyz))

C27_sampleS(xyz) == C27_byS(xyz, C27_rounded(xyz))

\* Two or three axes share the largest error, and the roundings do not add
\* up to zero.
C27_tied(r, d) ==
    /\ r[1] + r[2] + r[3] # 0
    /\ \E m \in 1..3 : \E n \in 1..3 :
          /\ m # n
          /\ d[m] = d[n]
          /\ \A k \in 1..3 : C27_atLeast(d[m], d[k])

C27_tiedAt(xyz, r) == C27_tied(r, C27_errors(xyz, r))

C27_tiedSample(xyz) == C27_tiedAt(xyz, C27_rounded(xyz))

\* C27 as claimed: every sample of a line is the rounding with the axis of
\* the largest error recomputed, q before r before s among equal errors.
C27_TiesGoToQ ==
    returned("lineBetween") =>
        \A i \in 1..(Len(call.result) - 1) :
            call.result[i] = C27_sampleQ(C27_xyz(call.a, call.b, C27_t(call.a, call.b, i)))

\* C27 amended: every sample of a line is the rounding with the axis of the
\* largest error recomputed, s before r before q among equal errors.
C27_TiesGoToS ==
    returned("lineBetween") =>
        \A i \in 1..(Len(call.result) - 1) :
            call.result[i] = C27_sampleS(C27_xyz(call.a, call.b, C27_t(call.a, call.b, i)))

\* C27: lineBetween has returned the line from (1,6,-7) to (-1,7,-6), whose
\* middle sample (0, 6.5, -6.5) rounds to (0,7,-6) with the errors of r and
\* s tied, and s has been recomputed.
C27_Witness ==
    /\ returned("lineBetween")
    /\ call.a = <<1, 6, -7>>
    /\ call.b = <<-1, 7, -6>>
    /\ C27_tiedSample(C27_xyz(call.a, call.b, C27_t(call.a, call.b, 2)))
    /\ call.result[2] = <<0, 7, -7>>

C28_line(a, b, line) ==
    /\ \A i \in 1..Len(line) : cubeSum(line[i]) = 0
    /\ line[1] = a
    /\ line[Len(line)] = b
    /\ \A i \in 1..(Len(line) - 1) : distance(line[i], line[i + 1]) = 1

\* C28: every hex of lineBetween(a, b) has q + r + s = 0, the first is a,
\* the last is b, and consecutive hexes are at distance 1.
C28_LineIsConnected == returned("lineBetween") => C28_line(call.a, call.b, call.result)

\* C28: lineBetween has returned a line of 13 hexes that runs along no axis
\* and whose fourth sample has roundings that do not add up to zero.
C28_Witness ==
    /\ returned("lineBetween")
    /\ call.a = <<2, -5, 3>>
    /\ call.b = <<0, 7, -7>>
    /\ Len(call.result) = 13
    /\ cubeSum(C27_rounded(C27_xyz(call.a, call.b, C27_t(call.a, call.b, 4)))) # 0

\* The hexes at a distance from center of at least r0 and less than r1.
C29_band(center, r0, r1) ==
    {h \in {<<center[1] + dq, center[2] + dr, center[3] - dq - dr>> :
                dq \in (-r1)..r1, dr \in (-r1)..r1} :
        r0 <= distance(center, h) /\ distance(center, h) < r1}

C29_once(result) == \A i, j \in 1..Len(result) : i # j => result[i] # result[j]

C29_rings(center, r0, r1, result) ==
    /\ Range(result) = C29_band(center, r0, r1)
    /\ C29_once(result)

C29_circle(cell, n, result) ==
    /\ Range(result) = {c \in Cells : distance(hexOf[cell], hexOf[c]) <= n - 1}
    /\ C29_once(result)

\* C29: rings(center, r0, r1) holds each hex at a distance d from center
\* with r0 <= d < r1 exactly once and no other hex, and cell.circle(n) holds
\* each cell of the grid at a distance of at most n - 1 from cell exactly
\* once and no other cell.
C29_RingsAndCircle ==
    /\ returned("rings") =>
          C29_rings(call.center, call.startRadius, call.endRadius, call.result)
    /\ returned("circle") => C29_circle(call.cell, call.radius, call.result)

\* C29: circle(6) of the player's start, a cell two steps from the rim, has
\* returned the 57 cells of the grid within distance 5 of it.
C29_Witness ==
    /\ returned("circle")
    /\ call.cell = playerStart
    /\ call.radius = 6
    /\ Len(call.result) = 57

(***************************************************************************)
(* The board of a fresh level                                              *)
(***************************************************************************)

C30_ends == hexOf[playerCell] = <<-3, 6, -3>> /\ hexOf[exitCell] = <<3, -6, 3>>

\* C30 as claimed: before the first turn the player is on (-3,6,-3), the exit
\* on (3,-6,3), and every cell at distance 2 from the origin is not pathable.
C30_RingOfRadiusTwo ==
    turns = 0 =>
        /\ C30_ends
        /\ \A c \in Cells : distance(hexOf[c], zero) = 2 => color[c] # BLANK

C30_mountain ==
    /\ C30_ends
    /\ \A c \in Cells : distance(hexOf[c], zero) < 2 => color[c] # BLANK

\* C30 amended: after new Game() and after every nextLevel the player is on
\* (-3,6,-3), the exit on (3,-6,3), and every cell at a distance of less than
\* 2 from the origin is not pathable.
C30_FreshBoard == C30_mountain /\ [][nextLevel => C30_mountain']_vars

\* C30: level 2 has just been set up; a cell next to the origin is mountain
\* and a cell at distance 2 is open.
C30_Witness ==
    /\ level = 2
    /\ turns > 0
    /\ hexOf[playerCell] = <<-3, 6, -3>>
    /\ numTeleports = 1
    /\ state = "game"
    /\ color[get(<<1, -1, 0>>)] = MOUNTAIN
    /\ color[get(<<2, -2, 0>>)] = BLANK

(***************************************************************************)
(* The properties of pathBetween, on the calls of SpecSearch               *)
(***************************************************************************)

\* Every neighbour of goal on the grid is a cell that is not pathable.
enclosed(clr, goal) == \A n \in adjacentCells[goal] : clr[n] # BLANK

\* C21 as claimed: for start # goal and a goal whose neighbours are all not
\* pathable, pathBetween returns undefined.
C21_EnclosedGoal ==
    returned("pathBetween") /\ call.start # call.goal /\ enclosed(call.color, call.goal)
        => ~call.result.found

\* C21 amended: for a start that is neither goal nor a neighbour of goal and
\* a goal whose neighbours are all not pathable, pathBetween returns
\* undefined.
C21_EnclosedGoalFromAfar ==
    /\ returned("pathBetween")
    /\ call.start # call.goal
    /\ ~adjacent(call.start, call.goal)
    /\ enclosed(call.color, call.goal)
    => ~call.result.found

\* C21: pathBetween has returned undefined for the corner enclosed by
\* barriers, from a start on a cell of the mountain.
C21_Witness ==
    /\ returned("pathBetween")
    /\ call.color = cornerTerrain
    /\ call.start = get(mountainHex)
    /\ call.goal = get(cornerHex)
    /\ enclosed(call.color, call.goal)
    /\ ~call.result.found

\* Every cell that has a cost has been pushed once: the pops and the
\* entries of the frontier are as many as the cells with a cost.
C23_pushedOnce ==
    call.pops + Len(call.st.frontier)
        = Cardinality({c \in Cells : call.st.costSoFar[c] # absent})

\* The measure of the while loop: twice the cells without a cost, plus the
\* entries of the frontier.  It is a natural number.
C23_measure(st) ==
    2 * Cardinality({c \in Cells : st.costSoFar[c] = absent}) + Len(st.frontier)

\* C23: every turn of the while loop makes the measure smaller and leaves
\* every cell pushed at most once, so the loop ends after finitely many
\* turns; the only other step is the return.
C23_Terminates ==
    [][\/ /\ ~call'.done
          /\ C23_measure(call'.st) < C23_measure(call.st)
          /\ C23_pushedOnce'
       \/ /\ call'.done
          /\ ended(call.st)]_vars

\* C23: pathBetween has returned undefined after one pop, from the centre
\* of the mountain, a start with no neighbour to go to.
C23_Witness ==
    /\ returned("pathBetween")
    /\ call.color = setupColor
    /\ call.start = get(zero)
    /\ call.goal = get(exitHex)
    /\ call.pops = 1
    /\ ~call.result.found

\* The place of cell in the order of the pushes.
pushedAt(order, cell) == CHOOSE k \in 1..Len(order) : order[k] = cell

C26_firstIn(frontier, order) ==
    \A k \in 1..Len(frontier) :
        frontier[k].priority = frontier[1].priority
            => pushedAt(order, frontier[1].value) <= pushedAt(order, frontier[k].value)

C26_least(frontier) ==
    \A k \in 1..Len(frontier) : frontier[1].priority <= frontier[k].priority

\* C26 as claimed: the entry the next pop takes is, among the entries of the
\* least cost, the one pushed first.
C26_StableFrontier ==
    Len(call.st.frontier) > 0 => C26_firstIn(call.st.frontier, call.order)

\* C26 amended: the entry the next pop takes has the least cost of the
\* frontier.
C26_LeastCostFirst == Len(call.st.frontier) > 0 => C26_least(call.st.frontier)

\* C26: the frontier holds entries of two costs, the next pop takes one of
\* the least cost, and an entry of that cost pushed before it waits.
C26_Witness ==
    /\ Len(call.st.frontier) > 1
    /\ C26_least(call.st.frontier)
    /\ \E k \in 1..Len(call.st.frontier) :
          call.st.frontier[k].priority > call.st.frontier[1].priority
    /\ ~C26_firstIn(call.st.frontier, call.order)

(***************************************************************************)
(* The properties of a level as a whole                                    *)
(***************************************************************************)

\* C31: a step that is not a setup of the board (nextLevel) changes the
\* colour of a cell only from BLANK to BARRIER, so a cell that is not
\* pathable stays not pathable until the next setup.
C31_TerrainOnlyCloses ==
    [][~nextLevel =>
          \A c \in Cells :
              color'[c] # color[c] => (color[c] = BLANK /\ color'[c] = BARRIER)]_vars

\* C31: a barrier was drawn from rowEndA to the mountain, two turns were
\* resolved and the player has left the start; the barrier and the mountain
\* stand.
C31_Witness ==
    /\ barriers = 1
    /\ turns = 2
    /\ state = "game"
    /\ playerCell # playerStart
    /\ color[get(rowEndA)] = BARRIER
    /\ color[get(<<-2, 1, 1>>)] = BARRIER
    /\ color[get(<<-1, 1, 0>>)] = MOUNTAIN

\* C32: the number of teleport charges is 0 or 1.
C32_ChargeIsZeroOrOne == numTeleports \in {0, 1}

\* C32: the charge is spent and the level goes on: a second turn was
\* resolved after the teleport, or the teleport resolved the second turn.
C32_Witness ==
    /\ numTeleports = 0
    /\ state = "game"
    /\ turns = 2
    /\ selectedAbility = "none"

\* C33: a step that is not a setup of the board (nextLevel) leaves the
\* enemy list as long as it was and every enemy on its cell or on a cell
\* adjacent to it.
C33_EnemiesStepOnce ==
    [][~nextLevel =>
          /\ Len(enemies') = Len(enemies)
          /\ \A i \in 1..Len(enemies) :
                 \/ enemies'[i] = enemies[i]
                 \/ distance(hexOf[enemies[i]], hexOf[enemies'[i]]) = 1]_vars

\* C33: after a barrier and two resolved turns the enemy has left the cell
\* it spawned on and the level goes on.
C33_Witness ==
    /\ turns = 2
    /\ barriers = 1
    /\ state = "game"
    /\ Len(enemies) = 1
    /\ enemies[1] \notin spawnDraw

\* The path from the cell an enemy moved to is one cell shorter than the
\* path from the cell it left.
C34_closer(before, after) ==
    /\ before.found
    /\ after.found
    /\ Len(after.path) = Len(before.path) - 1

\* C34: in a resolved turn, every enemy that changes cell had a path to the
\* player's cell on the terrain of the turn, and the path from its new cell
\* is one cell shorter; so an enemy without a path keeps its cell.
C34_EnemiesCloseIn ==
    [][turns' = turns + 1 =>
          \A i \in 1..Len(enemies) :
              enemies'[i] # enemies[i] =>
                  C34_closer(pathBetween(color', enemies[i], playerCell'),
                             pathBetween(color', enemies'[i], playerCell'))]_vars

\* C34: after the first turn the enemy stands next to a spawn cell, one
\* cell closer to the player than that cell.
C34_Witness ==
    /\ turns = 1
    /\ state = "game"
    /\ Len(enemies) = 1
    /\ enemies[1] \notin spawnDraw
    /\ \E s \in spawnDraw :
           /\ distance(hexOf[s], hexOf[enemies[1]]) = 1
           /\ C34_closer(pathBetween(color, s, playerCell),
                         pathBetween(color, enemies[1], playerCell))

=============================================================================
